---- MODULE Spec2Model ----
(***************************************************************************)
(* Model of src/modules/AnimeStatsService.js: the expiring CacheService,   *)
(* the statistics aggregation of AnimeStatsService.fetchUserAnimeStats,    *)
(* the cover lookup of AnimeCoverService and the two slash-command         *)
(* handlers handleAnimeStatsCommand and handleAnimeCoverCommand.           *)
(*                                                                         *)
(* JavaScript runs each handler to its next await without interleaving, so *)
(* one action is the completion of one awaited operation (deferReply,      *)
(* axios.post, editReply, reply) together with the synchronous code that   *)
(* follows it up to the next await.                                        *)
(*                                                                         *)
(* A nullable JavaScript value is a tuple: <<>> is null/undefined and      *)
(* <<x>> is the value x.                                                   *)
(***************************************************************************)
EXTENDS Integers, Sequences, FiniteSets, TLC

VARIABLES
    cache,      \* CacheService.cache: key -> entry {value, timestamp} or null
    now,        \* Date.now()
    cmds,       \* the command invocations in flight, one record per slot
    lastOp,     \* the last direct CacheService call and what it returned
    lastSet,    \* per key: the last set (value, time, the entry it overwrote)
                \* not followed by clear
    aggIn,      \* an upstream response handed to the aggregation
    aggOut      \* what the aggregation made of aggIn

vars == <<cache, now, cmds, lastOp, lastSet, aggIn, aggOut>>

Null == <<>>
Some(x) == <<x>>
IsNull(o) == o = <<>>
Val(o) == o[1]

SeqsUpTo(S, n) == UNION {[1..k -> S] : k \in 0..n}

RECURSIVE SumSeq(_)
SumSeq(s) == IF s = <<>> THEN 0 ELSE Head(s) + SumSeq(Tail(s))

RECURSIVE Flat(_)
Flat(ss) == IF ss = <<>> THEN <<>> ELSE Head(ss) \o Flat(Tail(ss))

(***************************************************************************)
(* Bounds of the model.                                                    *)
(***************************************************************************)
\* entries in one raw list collection handed to the aggregation
MaxEntries == 3
\* clock steps taken in one behaviour
MaxTicks == 2

(***************************************************************************)
(* Stats aggregation: fetchUserAnimeStats, lines 89-126.                   *)
(***************************************************************************)
StatusNames == <<"Completed", "Watching", "Paused", "Dropped", "Planning">>
ListNames == StatusNames \o <<"Rewatching">>
ScoreValues == {70, 90}
Scores == {Null} \cup {Some(s) : s \in ScoreValues}

Entry(score) == [media |-> [averageScore |-> score]]

\* lists.find(list => list.name === name): the first list of that name
RECURSIVE Find(_, _)
Find(lists, name) ==
    IF lists = <<>> THEN Null
    ELSE IF Head(lists).name = name THEN Some(Head(lists))
    ELSE Find(Tail(lists), name)

\* lists.find(...)?.entries || []
EntriesOf(lists, name) ==
    LET l == Find(lists, name)
    IN  IF IsNull(l) THEN <<>> ELSE Val(l).entries

\* The filter left out and a null score counted as 0
RECURSIVE NullAsZeroScores(_)
NullAsZeroScores(entries) ==
    IF entries = <<>> THEN <<>>
    ELSE LET score == Head(entries).media.averageScore
         IN  <<IF score # Null THEN Val(score) ELSE 0>>
                 \o NullAsZeroScores(Tail(entries))

\* .filter(score => score !== null) over .map(entry => entry.media.averageScore)
RECURSIVE ValidScores(_)
ValidScores(entries) ==
    IF entries = <<>> THEN <<>>
    ELSE LET score == Head(entries).media.averageScore
         IN  (IF score # Null THEN <<Val(score)>> ELSE <<>>)
                 \o ValidScores(Tail(entries))

\* A JavaScript number n is [type |-> "number", hundredths |-> 100 * n]; the
\* string toFixed(2) makes is [type |-> "string", hundredths |-> its digits].
Number(n) == [type |-> "number", hundredths |-> 100 * n]

\* (sum / count).toFixed(2): the decimal string of the quotient rounded to
\* two digits, ties upward
ToFixed2(sum, count) ==
    [type |-> "string", hundredths |-> (200 * sum + count) \div (2 * count)]

AverageScore(validScores) ==
    IF Len(validScores) > 0
    THEN ToFixed2(SumSeq(validScores), Len(validScores))
    ELSE Number(0)

RECURSIVE EveryEntry(_)
EveryEntry(lists) ==
    IF lists = <<>> THEN <<>> ELSE Head(lists).entries \o EveryEntry(Tail(lists))

\* The total taken over every list of the response, custom lists included
ComputeStatsOverAllLists(lists) ==
    LET statusCategories == [i \in 1..5 |-> EntriesOf(lists, StatusNames[i])]
    IN  [totalAnime     |-> Len(EveryEntry(lists)),
         completedAnime |-> Len(statusCategories[1]),
         watchingAnime  |-> Len(statusCategories[2]),
         pausedAnime    |-> Len(statusCategories[3]),
         droppedAnime   |-> Len(statusCategories[4]),
         planningAnime  |-> Len(statusCategories[5]),
         averageScore   |-> AverageScore(ValidScores(Flat(statusCategories)))]

ComputeStats(lists) ==
    LET statusCategories == [i \in 1..5 |-> EntriesOf(lists, StatusNames[i])]
        allEntries == Flat(statusCategories)
    IN  [totalAnime     |-> Len(allEntries),
         completedAnime |-> Len(statusCategories[1]),
         watchingAnime  |-> Len(statusCategories[2]),
         pausedAnime    |-> Len(statusCategories[3]),
         droppedAnime   |-> Len(statusCategories[4]),
         planningAnime  |-> Len(statusCategories[5]),
         averageScore   |-> AverageScore(ValidScores(allEntries))]

NoStats == ComputeStats(<<>>)

Ok(stats) == [ok |-> TRUE, error |-> "", stats |-> stats]
Thrown(error) == [ok |-> FALSE, error |-> error, stats |-> NoStats]

\* Reading .lists of a null MediaListCollection, or calling .find on null
\* lists, throws a TypeError.
Aggregate(response) ==
    IF IsNull(response.User) THEN Thrown("UserNotFound")
    ELSE IF IsNull(response.MediaListCollection) THEN Thrown("TypeError")
    ELSE IF IsNull(Val(response.MediaListCollection).lists) THEN Thrown("TypeError")
    ELSE Ok(ComputeStats(Val(Val(response.MediaListCollection).lists)))

\* `${stats.averageScore || 'N/A'}`: the number 0 is falsy, a string of
\* digits is not
Truthy(v) == IF v.type = "number" THEN v.hundredths # 0 ELSE TRUE
NA == [type |-> "N/A", hundredths |-> 0]

createAnimeStatsEmbed(username, stats) ==
    [title          |-> username,
     totalAnime     |-> stats.totalAnime,
     completedAnime |-> stats.completedAnime,
     watchingAnime  |-> stats.watchingAnime,
     pausedAnime    |-> stats.pausedAnime,
     droppedAnime   |-> stats.droppedAnime,
     planningAnime  |-> stats.planningAnime,
     averageScore   |-> IF Truthy(stats.averageScore)
                        THEN stats.averageScore ELSE NA]

(***************************************************************************)
(* Upstream responses to the stats query.                                  *)
(***************************************************************************)
Response(user, mlc) == [User |-> user, MediaListCollection |-> mlc]
WithLists(lists) == Some([lists |-> Some(lists)])
HasLists(response) ==
    /\ ~IsNull(response.MediaListCollection)
    /\ ~IsNull(Val(response.MediaListCollection).lists)
ListsOf(response) == Val(Val(response.MediaListCollection).lists)

RECURSIVE CountEntries(_)
CountEntries(lists) ==
    IF lists = <<>> THEN 0 ELSE Len(Head(lists).entries) + CountEntries(Tail(lists))

NameIndex(name) == CHOOSE i \in 1..Len(ListNames) : ListNames[i] = name

NotRun == [ok |-> FALSE, error |-> "not run", stats |-> NoStats]

(***************************************************************************)
(* CacheService, lines 7-38.                                               *)
(***************************************************************************)
ttl == 300000

Usernames == {"alice", "bob"}
StatsKey(username) == "stats_" \o username
CacheKeys == {StatsKey(u) : u \in Usernames}

\* An entry that is overwritten keeps its old timestamp
CacheSetKeepingTimestamp(c, key, value, t) ==
    [c EXCEPT ![key] = Some([value |-> value,
                             timestamp |-> IF IsNull(c[key]) THEN t
                                           ELSE Val(c[key]).timestamp])]

\* An entry that is overwritten gets the new timestamp and keeps its value
CacheSetKeepingValue(c, key, value, t) ==
    [c EXCEPT ![key] = Some([value |-> IF IsNull(c[key]) THEN value
                                       ELSE Val(c[key]).value,
                             timestamp |-> t])]

\* set(key, value): the map after the call; the call returns value
CacheSet(c, key, value, t) ==
    [c EXCEPT ![key] = Some([value |-> value, timestamp |-> t])]

\* Expiry one millisecond early: >= in place of >
IsExpiredAtTtl(entry, t) == t - entry.timestamp >= ttl

\* The comparison turned round: a young entry counts as expired
IsExpiredInverted(entry, t) == t - entry.timestamp < ttl

\* Date.now() - entry.timestamp > this.ttl
IsExpired(entry, t) == t - entry.timestamp > ttl

\* A read that hits renews the timestamp of the entry
CacheGetRefreshing(c, key, t) ==
    IF IsNull(c[key]) THEN [value |-> Null, cache |-> c]
    ELSE IF IsExpired(Val(c[key]), t)
         THEN [value |-> Null, cache |-> [c EXCEPT ![key] = Null]]
         ELSE [value |-> Some(Val(c[key]).value),
               cache |-> [c EXCEPT ![key] = Some([Val(c[key]) EXCEPT !.timestamp = t])]]

\* An expired entry is reported absent and left in the map
CacheGetKeepingExpired(c, key, t) ==
    IF IsNull(c[key]) \/ IsExpired(Val(c[key]), t) THEN [value |-> Null, cache |-> c]
    ELSE [value |-> Some(Val(c[key]).value), cache |-> c]

\* get(key): the value returned (null when absent or expired) and the map
\* after the call
CacheGet(c, key, t) ==
    IF IsNull(c[key]) THEN [value |-> Null, cache |-> c]
    ELSE IF IsExpired(Val(c[key]), t)
         THEN [value |-> Null, cache |-> [c EXCEPT ![key] = Null]]
         ELSE [value |-> Some(Val(c[key]).value), cache |-> c]

\* clear(key)
CacheClear(c, key) == [c EXCEPT ![key] = Null]

EmptyCache == [k \in CacheKeys |-> Null]

\* The clock moves by one millisecond or by ttl milliseconds, so that a
\* behaviour can read an entry before, exactly at and just after
\* timestamp + ttl.
TickSteps == {1, ttl}
TicksTaken == (now \div ttl) + (now % ttl)

Tick ==
    /\ TicksTaken < MaxTicks
    /\ \E d \in TickSteps : now' = now + d
    /\ UNCHANGED <<cache, cmds, lastOp, lastSet, aggIn, aggOut>>

\* Values a client of the cache stores
CacheValues ==
    {ComputeStats(<<>>),
     ComputeStats(<<[name |-> "Completed", entries |-> <<Entry(Some(80))>>]>>)}

NoOp == [op |-> "none", key |-> "", value |-> Null, at |-> 0]

SetOp(key, value) ==
    /\ cache' = CacheSet(cache, key, value, now)
    /\ lastOp' = [op |-> "set", key |-> key, value |-> Some(value), at |-> now]
    /\ lastSet' = [lastSet EXCEPT ![key] =
                       Some([value |-> value, timestamp |-> now, over |-> cache[key]])]
    /\ UNCHANGED <<now, cmds, aggIn, aggOut>>

GetOp(key) ==
    LET got == CacheGet(cache, key, now)
    IN  /\ cache' = got.cache
        /\ lastOp' = [op |-> "get", key |-> key, value |-> got.value, at |-> now]
        /\ UNCHANGED <<now, cmds, lastSet, aggIn, aggOut>>

ClearOp(key) ==
    /\ cache' = CacheClear(cache, key)
    /\ lastOp' = [op |-> "clear", key |-> key, value |-> Null, at |-> now]
    /\ lastSet' = [lastSet EXCEPT ![key] = Null]
    /\ UNCHANGED <<now, cmds, aggIn, aggOut>>

(***************************************************************************)
(* Command invocations.  A slot holds one invocation of a handler with its *)
(* interaction: the option value, the interaction's deferred and replied   *)
(* flags, the calls made on the interaction so far, and what is awaited.   *)
(***************************************************************************)
Cmds == {1, 2}
\* the slot of the commands that run one after the other
Sequential == {1}

Idle ==
    [kind |-> "none", arg |-> Null, pc |-> "idle", deferred |-> FALSE,
     replied |-> FALSE, calls |-> <<>>, lookups |-> 0, upstream |-> 0,
     fetch |-> "none", error |-> "", stats |-> NoStats, cover |-> Null,
     out |-> Null, prior |-> FALSE, before |-> Null, outcome |-> "none"]

\* What a reply carries: its text (with the user's own argument where the
\* text quotes it) and its embed, if any
Payload(content, arg, embed) == [content |-> content, arg |-> arg, embed |-> embed]
NoPayload == Payload("", Null, Null)
StatsValidationMsg == Payload("Please provide a valid AniList username.", Null, Null)
StatsFetchErrorMsg(username) ==
    Payload("Error fetching anime stats. Possible reasons: ...", Some(username), Null)
StatsUnexpectedMsg ==
    Payload("An unexpected error occurred. Please try again later.", Null, Null)
CoverValidationMsg == Payload("Please provide a valid anime ID.", Null, Null)
NoCoverMsg == Payload("No cover image found for that anime ID.", Null, Null)
CoverErrorMsg ==
    Payload("An error occurred while fetching the anime cover.", Null, Null)
EmbedReply(embed) == Payload("", Null, Some(embed))

\* One call on the interaction, with the flags it found
Call(op, payload, ok, c) ==
    [op |-> op, payload |-> payload, ok |-> ok,
     deferred |-> c.deferred, replied |-> c.replied]

\* The await left out: the code after the call runs whatever becomes of it
NotAwaited(ok) == TRUE

\* await: the code after it runs only when the awaited call succeeded, a
\* rejection is thrown at the await
AwaitOk(ok) == ok

Finish(c) == [c EXCEPT !.pc = "done", !.outcome = "returned"]
Escape(c) == [c EXCEPT !.pc = "done", !.outcome = "threw"]

\* The catch answers only an interaction that was deferred
GuardReplyOnlyDeferred(deferred, replied) ==
    IF deferred THEN "editReply" ELSE "none"

\* The catch does not look at the deferred flag
GuardReplyIgnoringDeferred(deferred, replied) ==
    IF ~replied THEN "reply" ELSE "none"

\* The reply operation the top-level catch picks (lines 243-253, 375-385)
GuardReply(deferred, replied) ==
    IF ~replied /\ ~deferred THEN "reply"
    ELSE IF deferred THEN "editReply"
    ELSE "none"

\* Entering catch (globalError): the final reply is issued, or nothing is
Guard(c) ==
    LET op == GuardReply(c.deferred, c.replied)
    IN  IF op = "reply" THEN [c EXCEPT !.pc = "guardReply"]
        ELSE IF op = "editReply" THEN [c EXCEPT !.pc = "guardEdit"]
        ELSE Finish(c)

\* The final reply of the top-level catch left without its own try/catch
StatsCatchUnguardedFinalReply(site) ==
    CASE site \in {"fetch", "render", "editSuccess"} -> "fetchError"
      [] site \in {"defer", "editValidation", "editFetchError"} -> "globalError"
      [] site \in {"guardReply", "guardEdit"} -> "none"

\* The catch block around each place of handleAnimeStatsCommand
StatsCatch(site) ==
    CASE site \in {"fetch", "render", "editSuccess"} -> "fetchError"
      [] site \in {"defer", "editValidation", "editFetchError"} -> "globalError"
      [] site \in {"guardReply", "guardEdit"} -> "replyError"

\* An exception thrown at `site` of handleAnimeStatsCommand
StatsFail(c, site) ==
    LET by == StatsCatch(site)
    IN  IF by = "fetchError" THEN [c EXCEPT !.pc = "editFetchError"]
        ELSE IF by = "globalError" THEN Guard(c)
        ELSE IF by = "replyError" THEN Finish(c)
        ELSE Escape(c)

\* if (!username)
InvalidUsername(arg) == IsNull(arg) \/ Val(arg) = ""

\* The deferReply, editReply or reply awaited at c.pc has settled
Settle(c, op, payload, ok) ==
    [c EXCEPT !.calls = Append(@, Call(op, payload, ok, c)),
              !.deferred = IF op = "deferReply" /\ ok THEN TRUE ELSE @,
              !.replied = IF op # "deferReply" /\ ok THEN TRUE ELSE @]

\* Outcomes of axios.post for the stats query: it throws, or it returns
StatsListsAlice ==
    <<[name |-> "Completed", entries |-> <<Entry(Some(85))>>],
      [name |-> "Watching", entries |-> <<Entry(Null)>>]>>
StatsListsExample ==
    <<[name |-> "Completed", entries |-> <<Entry(Some(80)), Entry(Some(90))>>],
      [name |-> "Watching", entries |-> <<Entry(Null)>>],
      [name |-> "Paused", entries |-> <<Entry(Some(70))>>]>>
StatsOutcomes(username) ==
    {[ok |-> FALSE, response |-> Response(Null, Null)],
     [ok |-> TRUE, response |-> Response(Null, Null)],
     [ok |-> TRUE, response |-> Response(Some(username), Some([lists |-> Null]))],
     [ok |-> TRUE, response |-> Response(Some(username), WithLists(<<>>))],
     [ok |-> TRUE, response |-> Response(Some(username), WithLists(StatsListsAlice))],
     [ok |-> TRUE, response |-> Response(Some(username), WithLists(StatsListsExample))]}

\* createAnimeStatsEmbed followed by the editReply of the embed (209-214)
StatsRender(c, renderOk) ==
    IF renderOk THEN [c EXCEPT !.pc = "editSuccess"] ELSE StatsFail(c, "render")

handleAnimeStatsCommand(p, arg) ==
    /\ cmds[p].pc \in {"idle", "done"}
    /\ cmds' = [cmds EXCEPT ![p] = [Idle EXCEPT !.kind = "stats", !.arg = arg,
                                                !.pc = "defer", !.outcome = "running"]]
    /\ UNCHANGED <<cache, now, lastOp, lastSet, aggIn, aggOut>>

\* await interaction.deferReply (193), validation (195-204) and the cache
\* check of fetchUserAnimeStats (49-53)
StatsDeferReply(p, ok, renderOk) ==
    LET c == cmds[p]
        c1 == Settle(c, "deferReply", NoPayload, ok)
    IN  /\ c.kind = "stats" /\ c.pc = "defer"
        /\ IF ~AwaitOk(ok) THEN
               /\ cmds' = [cmds EXCEPT ![p] = StatsFail(c1, "defer")]
               /\ cache' = cache
           ELSE IF InvalidUsername(c.arg) THEN
               /\ cmds' = [cmds EXCEPT ![p] = [c1 EXCEPT !.pc = "editValidation"]]
               /\ cache' = cache
           ELSE
               LET key == StatsKey(Val(c.arg))
                   got == CacheGet(cache, key, now)
                   c2 == [c1 EXCEPT !.lookups = @ + 1,
                                    !.before = Some([cache |-> cache, at |-> now])]
               IN  /\ cache' = got.cache
                   /\ cmds' = [cmds EXCEPT ![p] =
                         IF ~IsNull(got.value)
                         THEN StatsRender([c2 EXCEPT !.stats = Val(got.value),
                                                     !.fetch = "hit"], renderOk)
                         ELSE [c2 EXCEPT !.upstream = @ + 1, !.pc = "upstream"]]
        /\ UNCHANGED <<now, lastOp, lastSet, aggIn, aggOut>>

\* A fetch that fails stores empty stats under the key
StatsUpstreamCachingFailure(p, renderOk) ==
    LET c == cmds[p]
    IN  /\ c.kind = "stats" /\ c.pc = "upstream"
        /\ \E out \in StatsOutcomes(Val(c.arg)) :
              LET r == Aggregate(out.response)
              IN  IF out.ok /\ r.ok THEN
                      /\ cache' = CacheSet(cache, StatsKey(Val(c.arg)), r.stats, now)
                      /\ cmds' = [cmds EXCEPT ![p] =
                             StatsRender([c EXCEPT !.stats = r.stats,
                                                   !.out = Some(out),
                                                   !.fetch = "stored"], renderOk)]
                  ELSE
                      /\ cache' = CacheSet(cache, StatsKey(Val(c.arg)), r.stats, now)
                      /\ cmds' = [cmds EXCEPT ![p] =
                             StatsFail([c EXCEPT !.fetch = "threw",
                                                 !.out = Some(out),
                                                 !.error = IF out.ok THEN r.error
                                                           ELSE "UpstreamError"],
                                       "fetch")]
        /\ UNCHANGED <<now, lastOp, lastSet, aggIn, aggOut>>

\* await axios.post (76-87), the aggregation and cache.set (89-129)
StatsUpstream(p, renderOk) ==
    LET c == cmds[p]
    IN  /\ c.kind = "stats" /\ c.pc = "upstream"
        /\ \E out \in StatsOutcomes(Val(c.arg)) :
              LET r == Aggregate(out.response)
              IN  IF out.ok /\ r.ok THEN
                      /\ cache' = CacheSet(cache, StatsKey(Val(c.arg)), r.stats, now)
                      /\ cmds' = [cmds EXCEPT ![p] =
                             StatsRender([c EXCEPT !.stats = r.stats,
                                                   !.out = Some(out),
                                                   !.fetch = "stored"], renderOk)]
                  ELSE
                      /\ cache' = cache
                      /\ cmds' = [cmds EXCEPT ![p] =
                             StatsFail([c EXCEPT !.fetch = "threw",
                                                 !.out = Some(out),
                                                 !.error = IF out.ok THEN r.error
                                                           ELSE "UpstreamError"],
                                       "fetch")]
        /\ UNCHANGED <<now, lastOp, lastSet, aggIn, aggOut>>

\* An awaited editReply or reply of handleAnimeStatsCommand settles
StatsReplyStep(p, site, op, payload, ok) ==
    LET c == cmds[p]
        c1 == Settle(c, op, payload, ok)
    IN  /\ c.kind = "stats" /\ c.pc = site
        /\ cmds' = [cmds EXCEPT ![p] = IF ok THEN Finish(c1) ELSE StatsFail(c1, site)]
        /\ UNCHANGED <<cache, now, lastOp, lastSet, aggIn, aggOut>>

StatsEditValidation(p, ok) ==
    StatsReplyStep(p, "editValidation", "editReply", StatsValidationMsg, ok)

StatsEditSuccess(p, ok) ==
    StatsReplyStep(p, "editSuccess", "editReply",
        EmbedReply(createAnimeStatsEmbed(Val(cmds[p].arg), cmds[p].stats)), ok)

StatsEditFetchError(p, ok) ==
    StatsReplyStep(p, "editFetchError", "editReply",
        StatsFetchErrorMsg(Val(cmds[p].arg)), ok)

StatsGuardReply(p, ok) ==
    \/ StatsReplyStep(p, "guardReply", "reply", StatsUnexpectedMsg, ok)
    \/ StatsReplyStep(p, "guardEdit", "editReply", StatsUnexpectedMsg, ok)

(***************************************************************************)
(* AnimeCoverService, lines 273-395.  The animeid option is a string, here *)
(* the tuple of its characters.                                            *)
(***************************************************************************)
DigitChars == <<"0", "1", "2", "3", "4", "5", "6", "7", "8", "9">>
IsDigit(ch) == \E i \in 1..10 : DigitChars[i] = ch
DigitVal(ch) == (CHOOSE i \in 1..10 : DigitChars[i] = ch) - 1

NaN == [nan |-> TRUE, n |-> 0]
Int32(n) == [nan |-> FALSE, n |-> n]

\* The number the leading digits of chars denote, after acc
RECURSIVE Digits(_, _)
Digits(chars, acc) ==
    IF chars = <<>> \/ ~IsDigit(Head(chars)) THEN acc
    ELSE Digits(Tail(chars), 10 * acc + DigitVal(Head(chars)))

\* parseInt(string): leading blanks are skipped, a sign is taken, then the
\* longest run of digits; NaN when there is no digit
RECURSIVE parseInt(_)
parseInt(chars) ==
    IF chars = <<>> THEN NaN
    ELSE IF Head(chars) = " " THEN parseInt(Tail(chars))
    ELSE LET signed == Head(chars) \in {"-", "+"}
             body == IF signed THEN Tail(chars) ELSE chars
         IN  IF body = <<>> \/ ~IsDigit(Head(body)) THEN NaN
             ELSE Int32((IF Head(chars) = "-" THEN -1 ELSE 1) * Digits(body, 0))

\* if (!animeIdStr || isNaN(parseInt(animeIdStr)))
InvalidAnimeId(arg) ==
    IsNull(arg) \/ Val(arg) = <<>> \/ parseInt(Val(arg)).nan

\* The catch block around each place of handleAnimeCoverCommand
\* A failed final reply is handed to the top-level catch once more
CoverCatchRetrying(site) ==
    CASE site \in {"defer", "fetch", "render", "editValidation", "editNoCover",
                   "editSuccess", "guardReply", "guardEdit"} -> "globalError"

CoverCatch(site) ==
    CASE site \in {"defer", "fetch", "render", "editValidation", "editNoCover",
                   "editSuccess"} -> "globalError"
      [] site \in {"guardReply", "guardEdit"} -> "replyError"

\* An exception thrown at `site` of handleAnimeCoverCommand
CoverFail(c, site) ==
    LET by == CoverCatch(site)
    IN  IF by = "globalError" THEN Guard(c)
        ELSE IF by = "replyError" THEN Finish(c)
        ELSE Escape(c)

\* Outcomes of axios.post for the cover query: it throws, or it returns
\* Media.coverImage.extraLarge, null when no entity or no image resolved
CoverUrl == "https://img.anili.st/cover/extraLarge.jpg"
CoverOutcomes ==
    {[ok |-> FALSE, extraLarge |-> Null],
     [ok |-> TRUE, extraLarge |-> Null],
     [ok |-> TRUE, extraLarge |-> Some("")],
     [ok |-> TRUE, extraLarge |-> Some(CoverUrl)]}

\* The catch returns null in place of throwing again
fetchAnimeCoverByIdSwallowing(out) ==
    IF ~out.ok THEN [threw |-> FALSE, error |-> "", coverImage |-> Null]
    ELSE IF IsNull(out.extraLarge) \/ Val(out.extraLarge) = ""
    THEN [threw |-> FALSE, error |-> "", coverImage |-> Null]
    ELSE [threw |-> FALSE, error |-> "", coverImage |-> out.extraLarge]

\* A rejected axios.post is logged and thrown again (308-318); otherwise
\* response.data?.data?.Media?.coverImage?.extraLarge || null is returned
fetchAnimeCoverById(out) ==
    IF ~out.ok THEN [threw |-> TRUE, error |-> "UpstreamError", coverImage |-> Null]
    ELSE IF IsNull(out.extraLarge) \/ Val(out.extraLarge) = ""
    THEN [threw |-> FALSE, error |-> "", coverImage |-> Null]
    ELSE [threw |-> FALSE, error |-> "", coverImage |-> out.extraLarge]

CoverEmbed(animeId, coverImage) == [title |-> animeId, image |-> coverImage]

\* prior remembers that the command before it in the slot resolved a cover
\* for the same animeid
handleAnimeCoverCommand(p, arg) ==
    /\ cmds[p].pc \in {"idle", "done"}
    /\ cmds' = [cmds EXCEPT ![p] =
          [Idle EXCEPT !.kind = "cover", !.arg = arg, !.pc = "defer",
                       !.outcome = "running",
                       !.prior = /\ cmds[p].kind = "cover"
                                 /\ cmds[p].arg = arg
                                 /\ cmds[p].fetch = "found"]]
    /\ UNCHANGED <<cache, now, lastOp, lastSet, aggIn, aggOut>>

\* A cover resolved by the command before is reused without a lookup
CoverDeferReplyMemoised(p, ok) ==
    LET c == cmds[p]
        c1 == Settle(c, "deferReply", NoPayload, ok)
    IN  /\ c.kind = "cover" /\ c.pc = "defer"
        /\ cmds' = [cmds EXCEPT ![p] =
              IF ~AwaitOk(ok) THEN CoverFail(c1, "defer")
              ELSE IF InvalidAnimeId(c.arg) THEN [c1 EXCEPT !.pc = "editValidation"]
              ELSE IF c.prior
              THEN [c1 EXCEPT !.fetch = "found", !.cover = Some(CoverUrl),
                              !.pc = "editSuccess"]
              ELSE [c1 EXCEPT !.upstream = @ + 1, !.pc = "upstream"]]
        /\ UNCHANGED <<cache, now, lastOp, lastSet, aggIn, aggOut>>

\* await interaction.deferReply (333) and the validation (337-343)
CoverDeferReply(p, ok) ==
    LET c == cmds[p]
        c1 == Settle(c, "deferReply", NoPayload, ok)
    IN  /\ c.kind = "cover" /\ c.pc = "defer"
        /\ cmds' = [cmds EXCEPT ![p] =
              IF ~AwaitOk(ok) THEN CoverFail(c1, "defer")
              ELSE IF InvalidAnimeId(c.arg) THEN [c1 EXCEPT !.pc = "editValidation"]
              ELSE [c1 EXCEPT !.upstream = @ + 1, !.pc = "upstream"]]
        /\ UNCHANGED <<cache, now, lastOp, lastSet, aggIn, aggOut>>

\* await axios.post (293-304) in fetchAnimeCoverById and lines 346-362
CoverUpstream(p, out, renderOk) ==
    LET c == [cmds[p] EXCEPT !.out = Some(out)]
        r == fetchAnimeCoverById(out)
        coverImage == r.coverImage
    IN  /\ cmds[p].kind = "cover" /\ cmds[p].pc = "upstream"
        /\ cmds' = [cmds EXCEPT ![p] =
              IF r.threw
              THEN CoverFail([c EXCEPT !.fetch = "threw", !.error = r.error], "fetch")
              ELSE IF IsNull(coverImage)
              THEN [c EXCEPT !.fetch = "none found", !.pc = "editNoCover"]
              ELSE IF ~renderOk
              THEN CoverFail([c EXCEPT !.fetch = "found", !.cover = coverImage], "render")
              ELSE [c EXCEPT !.fetch = "found", !.cover = coverImage,
                             !.pc = "editSuccess"]]
        /\ UNCHANGED <<cache, now, lastOp, lastSet, aggIn, aggOut>>

\* An awaited editReply or reply of handleAnimeCoverCommand settles
CoverReplyStep(p, site, op, payload, ok) ==
    LET c == cmds[p]
        c1 == Settle(c, op, payload, ok)
    IN  /\ c.kind = "cover" /\ c.pc = site
        /\ cmds' = [cmds EXCEPT ![p] = IF ok THEN Finish(c1) ELSE CoverFail(c1, site)]
        /\ UNCHANGED <<cache, now, lastOp, lastSet, aggIn, aggOut>>

CoverEditValidation(p, ok) ==
    CoverReplyStep(p, "editValidation", "editReply", CoverValidationMsg, ok)

CoverEditNoCover(p, ok) ==
    CoverReplyStep(p, "editNoCover", "editReply", NoCoverMsg, ok)

CoverEditSuccess(p, ok) ==
    CoverReplyStep(p, "editSuccess", "editReply",
        EmbedReply(CoverEmbed(parseInt(Val(cmds[p].arg)).n, Val(cmds[p].cover))), ok)

CoverGuardReply(p, ok) ==
    \/ CoverReplyStep(p, "guardReply", "reply", CoverErrorMsg, ok)
    \/ CoverReplyStep(p, "guardEdit", "editReply", CoverErrorMsg, ok)

\* The option values users send
UsernameArgs == {Null, Some("")} \cup {Some(u) : u \in Usernames}
AnimeIdArgs ==
    {Null, Some(<<>>), Some(<<"a", "b", "c">>), Some(<<"0">>),
     Some(<<"-", "5">>), Some(<<"2", "1">>)}

(***************************************************************************)
(* Specifications.                                                         *)
(***************************************************************************)
InitCommon ==
    /\ cache = EmptyCache
    /\ now = 0
    /\ cmds = [p \in Cmds |-> Idle]
    /\ lastOp = NoOp
    /\ lastSet = [k \in CacheKeys |-> Null]
    /\ aggOut = NotRun

\* The cache driven directly by a client
InitCache == InitCommon /\ aggIn = Response(Null, Null)

NextCache ==
    \/ \E k \in CacheKeys, v \in CacheValues : SetOp(k, v)
    \/ \E k \in CacheKeys : GetOp(k)
    \/ \E k \in CacheKeys : ClearOp(k)
    \/ Tick

SpecCache == InitCache /\ [][NextCache]_vars

\* The aggregation applied to every raw response within the bounds.  The
\* response is put together list by list and entry by entry: a raw collection
\* holds each list name at most once, in the order of ListNames, with at most
\* MaxEntries entries in all; or it lacks its lists, or its User.
InitAgg ==
    /\ InitCommon
    /\ aggIn \in {Response(Some("u"), WithLists(<<>>)),
                  Response(Some("u"), Some([lists |-> Null])),
                  Response(Some("u"), Null),
                  Response(Null, Null)}

AddList(name) ==
    /\ aggOut = NotRun
    /\ HasLists(aggIn)
    /\ LET lists == ListsOf(aggIn)
       IN  /\ lists # <<>> => NameIndex(lists[Len(lists)].name) < NameIndex(name)
           /\ aggIn' = [aggIn EXCEPT !.MediaListCollection =
                            WithLists(Append(lists, [name |-> name, entries |-> <<>>]))]
    /\ UNCHANGED <<cache, now, cmds, lastOp, lastSet, aggOut>>

AddEntry(score) ==
    /\ aggOut = NotRun
    /\ HasLists(aggIn)
    /\ LET lists == ListsOf(aggIn)
           n == Len(lists)
       IN  /\ n > 0
           /\ CountEntries(lists) < MaxEntries
           /\ aggIn' = [aggIn EXCEPT !.MediaListCollection =
                            WithLists([lists EXCEPT ![n].entries = Append(@, Entry(score))])]
    /\ UNCHANGED <<cache, now, cmds, lastOp, lastSet, aggOut>>

AggregateStep ==
    /\ aggOut = NotRun
    /\ aggOut' = Aggregate(aggIn)
    /\ UNCHANGED <<cache, now, cmds, lastOp, lastSet, aggIn>>

NextAgg ==
    \/ \E name \in {ListNames[i] : i \in 1..Len(ListNames)} : AddList(name)
    \/ \E score \in Scores : AddEntry(score)
    \/ AggregateStep

SpecAgg == InitAgg /\ [][NextAgg]_vars

\* The two services answering commands that arrive at any time
Init == InitCommon /\ aggIn = Response(Null, Null)

Next ==
    \/ \E p \in Sequential, arg \in UsernameArgs : handleAnimeStatsCommand(p, arg)
    \/ \E p \in Sequential, ok \in BOOLEAN, renderOk \in BOOLEAN : StatsDeferReply(p, ok, renderOk)
    \/ \E p \in Sequential, renderOk \in BOOLEAN : StatsUpstream(p, renderOk)
    \/ \E p \in Sequential, ok \in BOOLEAN : StatsEditValidation(p, ok)
    \/ \E p \in Sequential, ok \in BOOLEAN : StatsEditSuccess(p, ok)
    \/ \E p \in Sequential, ok \in BOOLEAN : StatsEditFetchError(p, ok)
    \/ \E p \in Sequential, ok \in BOOLEAN : StatsGuardReply(p, ok)
    \/ \E p \in Sequential, arg \in AnimeIdArgs : handleAnimeCoverCommand(p, arg)
    \/ \E p \in Sequential, ok \in BOOLEAN : CoverDeferReply(p, ok)
    \/ \E p \in Sequential, out \in CoverOutcomes, renderOk \in BOOLEAN : CoverUpstream(p, out, renderOk)
    \/ \E p \in Sequential, ok \in BOOLEAN : CoverEditValidation(p, ok)
    \/ \E p \in Sequential, ok \in BOOLEAN : CoverEditNoCover(p, ok)
    \/ \E p \in Sequential, ok \in BOOLEAN : CoverEditSuccess(p, ok)
    \/ \E p \in Sequential, ok \in BOOLEAN : CoverGuardReply(p, ok)
    \/ Tick

Spec == Init /\ [][Next]_vars

\* Two stats commands for one username in flight together, each invoked
\* once, with the interaction's calls succeeding
NextConc ==
    \/ \E p \in Cmds : cmds[p].pc = "idle" /\ handleAnimeStatsCommand(p, Some("alice"))
    \/ \E p \in Cmds : StatsDeferReply(p, TRUE, TRUE)
    \/ \E p \in Cmds : StatsUpstream(p, TRUE)
    \/ \E p \in Cmds : StatsEditSuccess(p, TRUE)
    \/ \E p \in Cmds : StatsEditFetchError(p, TRUE)
    \/ Tick

SpecConc == Init /\ [][NextConc]_vars

(***************************************************************************)
(* Properties.                                                             *)
(***************************************************************************)
IsReply(call) == call.op \in {"editReply", "reply"}
\* The replies the user got to see, and the reply operations tried
Delivered(c) == SelectSeq(c.calls, LAMBDA call : IsReply(call) /\ call.ok)
Attempts(c) == SelectSeq(c.calls, IsReply)
AllCallsOk(c) == \A i \in DOMAIN c.calls : c.calls[i].ok
Done(c) == c.pc = "done"

\* C1 as stated: when a handler finishes, exactly one user-visible reply has
\* been delivered, whatever succeeded and whatever failed.
C1_ExactlyOneReplyAlways ==
    \A p \in Cmds : Done(cmds[p]) => Len(Delivered(cmds[p])) = 1

\* C1 as amended: when a handler finishes it has tried at least one reply
\* operation, at most one reply has been delivered, and one has been
\* delivered exactly when the last reply operation it tried succeeded.
C1_OneReplyUnlessLastAttemptFails ==
    \A p \in Cmds :
        LET c == cmds[p]
        IN  Done(c) =>
                /\ Len(Attempts(c)) >= 1
                /\ Len(Delivered(c)) <= 1
                /\ IsReply(c.calls[Len(c.calls)])
                /\ (Len(Delivered(c)) = 1) <=> c.calls[Len(c.calls)].ok

\* A command that got its one reply at the second reply operation it tried
C1_Witness ==
    \E p \in Cmds :
        /\ Done(cmds[p])
        /\ Len(Delivered(cmds[p])) = 1
        /\ Len(Attempts(cmds[p])) >= 2

ErrorPayloads(c) ==
    IF c.kind = "stats" THEN {StatsFetchErrorMsg(Val(c.arg))} ELSE {CoverErrorMsg}

\* C2: deferReply is invoked at most once per command, reply() is never
\* invoked on an interaction whose deferred flag is true, and a command whose
\* upstream call failed after a successful deferral, with every reply
\* operation succeeding, has invoked editReply exactly once, with an error
\* payload.
C2_DeferOnceNoReplyAfterDeferred ==
    \A p \in Cmds :
        LET c == cmds[p]
            calls == c.calls
        IN  /\ Cardinality({i \in DOMAIN calls : calls[i].op = "deferReply"}) <= 1
            /\ \A i \in DOMAIN calls : calls[i].op = "reply" => ~calls[i].deferred
            /\ (Done(c) /\ c.error = "UpstreamError" /\ AllCallsOk(c)) =>
                   /\ Len(Attempts(c)) = 1
                   /\ Attempts(c)[1].op = "editReply"
                   /\ Attempts(c)[1].payload \in ErrorPayloads(c)

\* A command that was deferred, lost its upstream call and answered once
C2_Witness ==
    \E p \in Cmds :
        /\ Done(cmds[p])
        /\ cmds[p].error = "UpstreamError"
        /\ AllCallsOk(cmds[p])
        /\ cmds[p].deferred
        /\ Len(cmds[p].calls) = 2

\* The last call was get(k) and k was set, and not cleared, before it
GetAfterSet == lastOp.op = "get" /\ ~IsNull(lastSet[lastOp.key])

\* C3 as stated: a get(k) at time t after set(k, v) at time c returns v when
\* t < c + ttl and absent when t >= c + ttl.
C3_AbsentFromTtlOn ==
    GetAfterSet =>
        LET set == Val(lastSet[lastOp.key])
        IN  /\ lastOp.at < set.timestamp + ttl => lastOp.value = Some(set.value)
            /\ lastOp.at >= set.timestamp + ttl => lastOp.value = Null

\* C3 as amended: a get(k) at time t after set(k, v) at time c returns v when
\* t <= c + ttl and absent when t > c + ttl.
C3_AbsentAfterTtl ==
    GetAfterSet =>
        LET set == Val(lastSet[lastOp.key])
        IN  /\ lastOp.at <= set.timestamp + ttl => lastOp.value = Some(set.value)
            /\ lastOp.at > set.timestamp + ttl => lastOp.value = Null

\* A read exactly ttl after the set, which still returns the value
C3_Witness ==
    /\ GetAfterSet
    /\ lastOp.at = Val(lastSet[lastOp.key]).timestamp + ttl
    /\ lastOp.value = Some(Val(lastSet[lastOp.key]).value)

\* The step in which slot p starts fetchUserAnimeStats, and the one in which
\* its fetch stores a result
StartsFetch(p) ==
    cmds[p].kind = "stats" /\ cmds[p].pc = "defer" /\ cmds'[p].lookups = 1
StoresFetch(p) ==
    cmds[p].kind = "stats" /\ cmds[p].pc = "upstream" /\ cmds'[p].fetch = "stored"
\* key holds an entry that is at most ttl old
Fresh(key) == ~IsNull(cache[key]) /\ now - Val(cache[key]).timestamp <= ttl

\* C4: a successful fetchUserAnimeStats(u) stores its result under the key of
\* u; a later call that starts while that entry is at most ttl old returns
\* the stored stats, makes no upstream call and leaves the cache alone; a call
\* that finds no such entry makes one upstream call.
C4_HitWithinTtlSkipsUpstream ==
    [][\A p \in Cmds :
          LET key == StatsKey(Val(cmds[p].arg))
          IN  /\ StoresFetch(p) =>
                    cache'[key] = Some([value |-> cmds'[p].stats, timestamp |-> now])
              /\ StartsFetch(p) =>
                    IF Fresh(key)
                    THEN /\ cmds'[p].fetch = "hit"
                         /\ cmds'[p].stats = Val(cache[key]).value
                         /\ cmds'[p].upstream = 0
                         /\ cache' = cache
                    ELSE /\ cmds'[p].upstream = 1
                         /\ cmds'[p].pc = "upstream"]_vars

\* A command answered from the cache, some time after the entry was stored
C4_Witness ==
    \E p \in Cmds :
        LET c == cmds[p]
        IN  /\ Done(c) /\ c.fetch = "hit" /\ c.upstream = 0
            /\ ~IsNull(cache[StatsKey(Val(c.arg))])
            /\ Val(cache[StatsKey(Val(c.arg))]).timestamp < now
            /\ Delivered(c) =
                   <<Call("editReply",
                          EmbedReply(createAnimeStatsEmbed(Val(c.arg), c.stats)),
                          TRUE, [deferred |-> TRUE, replied |-> FALSE])>>

\* The argument a command must be refused for: no or an empty username; no
\* media identifier, or one that does not parse as a positive integer
IsPositiveInteger(chars) == ~parseInt(chars).nan /\ parseInt(chars).n > 0
RequiredArgumentInvalid(c) ==
    \/ c.kind = "stats" /\ (IsNull(c.arg) \/ Val(c.arg) = "")
    \/ c.kind = "cover" /\ (IsNull(c.arg) \/ ~IsPositiveInteger(Val(c.arg)))
ValidationMsg(c) == IF c.kind = "stats" THEN StatsValidationMsg ELSE CoverValidationMsg

\* C5: a command whose required argument is invalid (zero and negative media
\* identifiers included) gets the validation message as its only reply and
\* makes no upstream call.
C5_InvalidArgumentRefused ==
    \A p \in Cmds :
        LET c == cmds[p]
        IN  (Done(c) /\ RequiredArgumentInvalid(c) /\ AllCallsOk(c)) =>
                /\ c.upstream = 0
                /\ Len(Delivered(c)) = 1
                /\ Delivered(c)[1].payload = ValidationMsg(c)

\* C6: a command looks into the cache or calls upstream only after its
\* deferReply has been invoked and has succeeded; when deferReply fails the
\* command makes no upstream call.
C6_DeferredBeforeLookupOrUpstream ==
    \A p \in Cmds :
        LET c == cmds[p]
        IN  /\ (c.lookups > 0 \/ c.upstream > 0 \/ c.pc = "upstream") =>
                   /\ c.calls # <<>>
                   /\ c.calls[1].op = "deferReply" /\ c.calls[1].ok
                   /\ c.deferred
            /\ (c.calls # <<>> /\ ~c.calls[1].ok) => c.upstream = 0 /\ c.lookups = 0

\* A command whose upstream call is in flight, after its deferral
C6_Witness ==
    \E p \in Cmds :
        /\ cmds[p].pc = "upstream"
        /\ cmds[p].upstream = 1
        /\ cmds[p].calls = <<Call("deferReply", NoPayload, TRUE,
                                  [deferred |-> FALSE, replied |-> FALSE])>>

\* C7: no failure leaves a handler: whatever fails, a command that has
\* finished has returned normally.
C7_NothingEscapes ==
    \A p \in Cmds :
        /\ cmds[p].outcome # "threw"
        /\ Done(cmds[p]) => cmds[p].outcome = "returned"

\* A command that returned after its deferReply and every reply it tried failed
C7_Witness ==
    \E p \in Cmds :
        LET c == cmds[p]
        IN  /\ Done(c) /\ c.outcome = "returned"
            /\ Len(c.calls) >= 2
            /\ \A i \in DOMAIN c.calls : ~c.calls[i].ok

(***************************************************************************)
(* The aggregation, stated over the raw collection it was handed.          *)
(***************************************************************************)
UserPresent == ~IsNull(aggIn.User)
RawLists == IF HasLists(aggIn) THEN ListsOf(aggIn) ELSE <<>>
Named(name) == {i \in DOMAIN RawLists : RawLists[i].name = name}
\* the number of entries of the list called name, 0 when there is none
EntriesNamed(name) ==
    IF Named(name) = {} THEN 0
    ELSE Len(RawLists[CHOOSE i \in Named(name) : TRUE].entries)
Canonical == {StatusNames[i] : i \in DOMAIN StatusNames}
\* the places (list, entry) of the canonical lists that hold a score
Scored ==
    UNION {{<<i, j>> : j \in {j \in DOMAIN RawLists[i].entries :
                                ~IsNull(RawLists[i].entries[j].media.averageScore)}} :
           i \in {i \in DOMAIN RawLists : RawLists[i].name \in Canonical}}
RECURSIVE ScoreSum(_)
ScoreSum(places) ==
    IF places = {} THEN 0
    ELSE LET at == CHOOSE at \in places : TRUE
         IN  Val(RawLists[at[1]].entries[at[2]].media.averageScore)
                 + ScoreSum(places \ {at})
Abs(x) == IF x < 0 THEN -x ELSE x
Reported == createAnimeStatsEmbed("u", aggOut.stats).averageScore

\* C8: for a response with a User and a list collection, stats are computed;
\* each per-status count is the number of entries of the list of that name
\* and totalAnime is the sum of the five counts.
C8_TotalIsSumOfStatusCounts ==
    /\ (aggOut # NotRun /\ UserPresent /\ HasLists(aggIn)) => aggOut.ok
    /\ aggOut.ok =>
          LET st == aggOut.stats
          IN  /\ st.completedAnime = EntriesNamed("Completed")
              /\ st.watchingAnime = EntriesNamed("Watching")
              /\ st.pausedAnime = EntriesNamed("Paused")
              /\ st.droppedAnime = EntriesNamed("Dropped")
              /\ st.planningAnime = EntriesNamed("Planning")
              /\ st.totalAnime = st.completedAnime + st.watchingAnime
                     + st.pausedAnime + st.droppedAnime + st.planningAnime

\* Stats of a collection with a canonical list and a custom list, both filled
C8_Witness ==
    /\ aggOut.ok
    /\ EntriesNamed("Rewatching") = 2
    /\ EntriesNamed("Completed") = 1
    /\ aggOut.stats.totalAnime = 1

C10_AggregationNeverFails ==
    (aggOut # NotRun /\ UserPresent) =>
        /\ aggOut.ok
        /\ \A i \in DOMAIN StatusNames :
              Named(StatusNames[i]) = {} => EntriesNamed(StatusNames[i]) = 0
        /\ ~HasLists(aggIn) => aggOut.stats.totalAnime = 0 /\ Reported = NA

\* The last set of key k overwrote an entry holding another value
Overwrote(k) ==
    /\ ~IsNull(lastSet[k])
    /\ ~IsNull(Val(lastSet[k]).over)
    /\ Val(Val(lastSet[k]).over).value # Val(lastSet[k]).value

\* C11: set(k, v1) followed by set(k, v2): each set returns the value it has
\* stored, stamped with the time of that set; a later get(k) up to ttl after
\* the second set returns v2 and never v1, also when v1 would have expired,
\* and a get(k) more than ttl after the second set returns absent.
C11_OverwriteReplacesValueAndTime ==
    /\ lastOp.op = "set" =>
          cache[lastOp.key] = Some([value |-> Val(lastOp.value), timestamp |-> lastOp.at])
    /\ (lastOp.op = "get" /\ Overwrote(lastOp.key)) =>
          LET second == Val(lastSet[lastOp.key])
              first == Val(second.over)
          IN  /\ lastOp.value # Some(first.value)
              /\ lastOp.at <= second.timestamp + ttl => lastOp.value = Some(second.value)
              /\ lastOp.at > second.timestamp + ttl => lastOp.value = Null

\* v1 set, v2 set later, and a get that returns v2 when v1 would have expired
C11_Witness ==
    /\ lastOp.op = "get"
    /\ Overwrote(lastOp.key)
    /\ lastOp.at > Val(Val(lastSet[lastOp.key]).over).timestamp + ttl
    /\ lastOp.value = Some(Val(lastSet[lastOp.key]).value)

\* What axios.post gave a cover command: a rejection, or a response that
\* resolves no cover image
UpstreamSettled(c) == c.kind = "cover" /\ ~IsNull(c.out)
TransportFailed(c) == UpstreamSettled(c) /\ ~Val(c.out).ok
NoCoverResolved(c) ==
    /\ UpstreamSettled(c)
    /\ Val(c.out).ok
    /\ (IsNull(Val(c.out).extraLarge) \/ Val(Val(c.out).extraLarge) = "")
Sent(c) == [i \in DOMAIN Attempts(c) |-> Attempts(c)[i].payload]

FetchingFailed(c) == c.kind \in {"stats", "cover"} /\ c.fetch = "threw"
\* The message that lists the likely causes (lines 225-229)
EnumeratesCauses(payload) ==
    payload.content = "Error fetching anime stats. Possible reasons: ..."

\* C13: whenever the Fetching stage of a command fails, on the stats path
\* and on the cover path alike, the reply of the command (every reply
\* operation succeeding) is the troubleshooting message that enumerates the
\* likely causes, the same for every cause of the failure, carrying nothing
\* but the argument the user supplied.
C13_FetchFailureGetsTroubleshooting ==
    \A p \in Cmds :
        LET c == cmds[p]
        IN  (FetchingFailed(c) /\ Done(c) /\ AllCallsOk(c)) =>
                /\ Len(Sent(c)) = 1
                /\ EnumeratesCauses(Sent(c)[1])
                /\ Sent(c)[1].arg \in {Null, c.arg}
                /\ Sent(c)[1].embed = Null

\* The step is the cache operation op on key k, made at the current time
CacheStep(op, k) ==
    /\ now' = now
    /\ lastOp'.op = op /\ lastOp'.key = k /\ lastOp'.at = now
Stale(k) == ~IsNull(cache[k]) /\ now - Val(cache[k]).timestamp > ttl

\* C14: expiry is lazy.  A get(k) that finds k expired deletes the entry and
\* returns absent; a get(k) of an absent key returns absent and leaves it
\* absent, and only set(k) creates an entry, so every later get(k) before a
\* new set(k) is absent too; the entry of k is removed or changed by get(k),
\* set(k) or clear(k) only, get(k) touching none but an expired one, and the
\* passing of time leaves the map alone, an expired entry included.
C14_ExpiryIsLazy ==
    [][\A k \in CacheKeys :
          /\ (CacheStep("get", k) /\ Stale(k)) =>
                 (cache'[k] = Null /\ lastOp'.value = Null)
          /\ (CacheStep("get", k) /\ IsNull(cache[k])) =>
                 (cache'[k] = Null /\ lastOp'.value = Null)
          /\ (IsNull(cache[k]) /\ ~IsNull(cache'[k])) => CacheStep("set", k)
          /\ cache'[k] # cache[k] =>
                 \/ CacheStep("set", k)
                 \/ CacheStep("clear", k)
                 \/ CacheStep("get", k) /\ Stale(k)
          /\ now' # now => cache' = cache
      ]_vars

\* An expired entry read and gone, next to one as old, never read and still
\* in the map
C14_Witness ==
    /\ lastOp.op = "get" /\ lastOp.value = Null /\ lastOp.at = now
    /\ ~IsNull(lastSet[lastOp.key]) /\ IsNull(cache[lastOp.key])
    /\ \E k \in CacheKeys \ {lastOp.key} : Stale(k)

\* C20: cache operations are local to their key and reads do not extend
\* lifetime.  set(k, v), get(k) and clear(k) leave the entry of every other
\* key as it was, and a get(k) of an entry that is not expired returns its
\* value and leaves the whole map as it was, the timestamp of k included.
C20_KeyLocalAndReadsKeepTimestamp ==
    [][\A k \in CacheKeys :
          /\ (\E op \in {"set", "get", "clear"} : CacheStep(op, k)) =>
                 \A j \in CacheKeys \ {k} : cache'[j] = cache[j]
          /\ (CacheStep("get", k) /\ ~IsNull(cache[k]) /\ ~Stale(k)) =>
                 /\ cache' = cache
                 /\ lastOp'.value = Some(Val(cache[k]).value)
      ]_vars

\* A read that hit an entry set earlier, whose timestamp is still the time
\* of the set, while the other key holds an entry of its own
C20_Witness ==
    /\ lastOp.op = "get" /\ ~IsNull(lastOp.value)
    /\ ~IsNull(cache[lastOp.key]) /\ ~IsNull(lastSet[lastOp.key])
    /\ Val(cache[lastOp.key]).timestamp = Val(lastSet[lastOp.key]).timestamp
    /\ Val(cache[lastOp.key]).timestamp < lastOp.at
    /\ \E j \in CacheKeys \ {lastOp.key} : ~IsNull(cache[j])

\* The replies only the top-level catch sends (lines 245, 250, 377, 382)
GuardMsgs == {StatsUnexpectedMsg, CoverErrorMsg}
IsGuardCall(call) == IsReply(call) /\ call.payload \in GuardMsgs
GuardCalls(c) == SelectSeq(c.calls, IsGuardCall)

\* C15: a failure that reaches the top-level guard makes the guard try at
\* most one final reply operation, picked from the reply state it finds:
\* reply() when the interaction is neither deferred nor replied, editReply()
\* when it is deferred, none otherwise.  That attempt is the last call the
\* handler makes on the interaction: when it fails the handler returns
\* without another reply operation.
C15_GuardTriesOneFinalReply ==
    \A p \in Cmds :
        LET c == cmds[p]
            g == GuardCalls(c)
        IN  /\ Len(g) <= 1
            /\ c.pc = "guardReply" => (g = <<>> /\ ~c.deferred /\ ~c.replied)
            /\ c.pc = "guardEdit" => (g = <<>> /\ c.deferred)
            /\ g # <<>> =>
                  /\ c.calls[Len(c.calls)] = g[1]
                  /\ Done(c) /\ c.outcome = "returned"
                  /\ g[1].op = "reply" <=> (~g[1].deferred /\ ~g[1].replied)
                  /\ g[1].op = "editReply" <=> g[1].deferred
                  /\ g[1].payload =
                         (IF c.kind = "stats" THEN StatsUnexpectedMsg ELSE CoverErrorMsg)

\* A guard whose editReply failed after a deferral: the handler is done and
\* the failed attempt is its last call
C15_Witness ==
    \E p \in Cmds :
        LET c == cmds[p]
        IN  /\ Done(c) /\ Len(GuardCalls(c)) = 1
            /\ GuardCalls(c)[1].op = "editReply"
            /\ ~GuardCalls(c)[1].ok
            /\ c.calls[Len(c.calls)] = GuardCalls(c)[1]
            /\ Delivered(c) = <<>>

\* The fetch of the command succeeded, and the command ended without its
\* success reply delivered: rendering the embed threw, or the editReply
\* carrying the embed failed
FetchSucceeded(c) == c.fetch \in {"hit", "stored", "found"}
FailedAfterFetch(c) ==
    /\ Done(c) /\ FetchSucceeded(c)
    /\ \A i \in DOMAIN c.calls :
           (IsReply(c.calls[i]) /\ ~IsNull(c.calls[i].payload.embed)) => ~c.calls[i].ok

\* C16: a failure that is not a validation, UserNotFound or upstream
\* failure, such as a failure while rendering the embed or while sending the
\* success reply after a successful fetch, is handled by the top-level
\* guard: the unexpected-error message of the guard is tried once and the
\* fetch troubleshooting message is not sent.
C16_LateFailureGoesToGuard ==
    \A p \in Cmds :
        LET c == cmds[p]
        IN  FailedAfterFetch(c) =>
                /\ Len(GuardCalls(c)) = 1
                /\ \A i \in DOMAIN c.calls : ~EnumeratesCauses(c.calls[i].payload)

\* The upstream lookups a cover command has issued once its deferReply has
\* settled: one when it was deferred and its animeid passed the validation
CoverLookupsDue(c) == IF c.deferred /\ ~InvalidAnimeId(c.arg) THEN 1 ELSE 0

\* C17: the cover path uses no cache.  A cover command that passes the
\* validation issues exactly one upstream lookup, also when the command
\* before it resolved the same animeid; a command that does not pass issues
\* none; and no step of a cover command reads or changes a cache entry.
C17_CoverPathUsesNoCache ==
    [][\A p \in Cmds :
          (cmds'[p].kind = "cover" /\ cmds'[p] # cmds[p]) =>
              /\ cache' = cache
              /\ cmds'[p].lookups = 0
              /\ cmds'[p].upstream =
                     (IF cmds'[p].pc = "defer" THEN 0 ELSE CoverLookupsDue(cmds'[p]))
              /\ cmds'[p].fetch \in {"found", "none found", "threw"} =>
                     cmds'[p].upstream = 1
      ]_vars

\* A cover command for the animeid the command before it resolved, finished
\* after one lookup of its own, with a stats entry sitting in the cache
C17_Witness ==
    \E p \in Cmds :
        LET c == cmds[p]
        IN  /\ Done(c) /\ c.kind = "cover" /\ c.prior
            /\ c.upstream = 1 /\ c.fetch = "found"
            /\ \E k \in CacheKeys : ~IsNull(cache[k])

\* The stats a successfully completed aggregation of a response for u, with
\* its User present, can produce
AggregatedStats(u) ==
    {Aggregate(out.response).stats :
        out \in {o \in StatsOutcomes(u) :
                    o.ok /\ ~IsNull(o.response.User) /\ Aggregate(o.response).ok}}
AggregatedStatsOf == [u \in Usernames |-> AggregatedStats(u)]
EntriesAggregated ==
    \A u \in Usernames :
        ~IsNull(cache[StatsKey(u)]) =>
            Val(cache[StatsKey(u)]).value \in AggregatedStatsOf[u]
\* fetchUserAnimeStats of command c has thrown
FetchThrew(c) == c.kind = "stats" /\ c.fetch = "threw" /\ ~IsNull(c.before)

\* C18 as stated: every entry under stats_<u> holds stats of a successfully
\* completed aggregation of a response for u with its User present, and a
\* fetchUserAnimeStats call that fails leaves the whole cache as it was when
\* the call began.
C18_FailedFetchLeavesCacheUnchanged ==
    /\ EntriesAggregated
    /\ \A p \in Sequential :
           FetchThrew(cmds[p]) => cache = Val(cmds[p].before).cache

\* C18 as amended: every entry under stats_<u> holds stats of a successfully
\* completed aggregation of a response for u with its User present; a
\* fetchUserAnimeStats call that fails creates and changes no entry, and
\* removes none but the entry of its own key that its cache read found
\* expired, so a failure is never cached and never evicts a valid entry.
C18_FailedFetchOnlyDropsExpiredEntry ==
    /\ EntriesAggregated
    /\ \A p \in Sequential :
           FetchThrew(cmds[p]) =>
               LET was == Val(cmds[p].before)
                   own == StatsKey(Val(cmds[p].arg))
               IN  \A k \in CacheKeys :
                       \/ cache[k] = was.cache[k]
                       \/ /\ k = own /\ IsNull(cache[k])
                          /\ ~IsNull(was.cache[k])
                          /\ was.at - Val(was.cache[k]).timestamp > ttl

\* A failed fetch whose cache read dropped the expired entry of its key,
\* the entry of the other user still in place
C18_Witness ==
    \E p \in Sequential :
        /\ FetchThrew(cmds[p]) /\ Done(cmds[p])
        /\ cache # Val(cmds[p].before).cache
        /\ \E k \in CacheKeys : ~IsNull(cache[k]) /\ cache[k] = Val(cmds[p].before).cache[k]

\* The stats aggregated from the response the upstream call of c itself got
OwnStats(c) == Aggregate(Val(c.out).response).stats
\* The cache read of slot p drops the expired entry of its key
DropsExpired(p) ==
    /\ cmds[p].kind = "stats" /\ cmds[p].pc = "defer" /\ cmds'[p].lookups = 1
    /\ Stale(StatsKey(Val(cmds[p].arg)))

\* C19: concurrent stats commands for one username are not coalesced.  A
\* command whose cache read misses issues an upstream call of its own, also
\* while the other command's call is in flight; a command whose fetch
\* completes stores, as one whole entry, the stats of its own response with
\* the time of the store, so the cache holds the result of the fetch that
\* completed last, and it replies with the stats of its own response; the
\* entry changes in no other way than by such a store or by the removal of
\* an expired entry, and is at all times the aggregation of one response.
C19_ConcurrentFetchesNotCoalesced ==
    [][\A p \in Cmds :
          LET c == cmds'[p]
              key == StatsKey("alice")
          IN  /\ (cmds[p].pc = "defer" /\ c.pc = "upstream") =>
                     (c.upstream = 1 /\ cache'[key] = Null)
              /\ StoresFetch(p) =>
                     /\ c.upstream = 1
                     /\ c.stats = OwnStats(c)
                     /\ cache'[key] = Some([value |-> OwnStats(c), timestamp |-> now])
              /\ (Done(c) /\ c.fetch = "stored") =>
                     Sent(c) = <<EmbedReply(createAnimeStatsEmbed("alice", OwnStats(c)))>>
              /\ cache'[key] # cache[key] =>
                     \E q \in Cmds : StoresFetch(q) \/ DropsExpired(q)
              /\ ~IsNull(cache'[key]) =>
                     Val(cache'[key]).value \in AggregatedStatsOf["alice"]
      ]_vars

\* Both commands missed, fetched different responses at one and the same
\* time and replied each with its own; the cache holds the stats of the
\* second, whose fetch completed last
C19_Witness ==
    /\ now = 0
    /\ \A p \in Cmds : Done(cmds[p]) /\ cmds[p].fetch = "stored" /\ cmds[p].upstream = 1
    /\ OwnStats(cmds[1]) # OwnStats(cmds[2])
    /\ Delivered(cmds[1]) # Delivered(cmds[2])
    /\ cache[StatsKey("alice")] = Some([value |-> OwnStats(cmds[2]), timestamp |-> 0])

====
